---- MODULE Spec2Model ----
(***************************************************************************)
(* PSP Media Metadata Writer (psp_metadata_writer.py).                     *)
(*                                                                         *)
(* File names and tags are sequences of one-character strings, so that     *)
(* Path.with_suffix, Path.stem, glob("*.mp4") and the regular expressions  *)
(* of extract_episode_number are computed on the characters, as the code   *)
(* computes them.  The directory is a function from the names it holds to  *)
(* their contents.                                                         *)
(***************************************************************************)
EXTENDS Integers, Sequences, FiniteSets, TLC

(***************************************************************************)
(* Bounds of the model.                                                    *)
(***************************************************************************)
\* how many names of VideoUniverse a directory may hold at the start
MaxVideos == 3
\* how many of the cover candidates (in list order) a directory may hold
MaxCovers == 2
\* how many tokens of FilenameTokens a file name given to the extractor has
MaxTokens == 3

(***************************************************************************)
(* Characters.                                                             *)
(***************************************************************************)
DigitChars == <<"0", "1", "2", "3", "4", "5", "6", "7", "8", "9">>

IsDigit(c) == \E d \in 1..Len(DigitChars) : DigitChars[d] = c

DigitVal(c) == (CHOOSE d \in 1..Len(DigitChars) : DigitChars[d] = c) - 1

\* re.IGNORECASE on the ASCII letters the patterns name
Lower(c) ==
    CASE c = "S" -> "s"
      [] c = "E" -> "e"
      [] c = "X" -> "x"
      [] c = "P" -> "p"
      [] c = "I" -> "i"
      [] c = "O" -> "o"
      [] c = "D" -> "d"
      [] OTHER -> c

\* \s of the regular expressions
IsSpace(c) == c \in {" ", "\t"}

\* s[i], or the empty string past either end
At(s, i) == IF i \in 1..Len(s) THEN s[i] ELSE ""

\* the index of the last character of the longest run of \d starting at i
\* (i - 1 when there is none): a greedy \d+
RECURSIVE DigitsEnd(_, _)
DigitsEnd(s, i) == IF IsDigit(At(s, i)) THEN DigitsEnd(s, i + 1) ELSE i - 1

\* the index of the last character of the longest run of \s starting at i
RECURSIVE SpacesEnd(_, _)
SpacesEnd(s, i) == IF IsSpace(At(s, i)) THEN SpacesEnd(s, i + 1) ELSE i - 1

\* whether the literal lit (lower case) is at s[i..] ignoring case
LitAt(s, i, lit) == \A k \in 1..Len(lit) : Lower(At(s, i + k - 1)) = lit[k]

\* int(): the value of a sequence of decimal digits
RECURSIVE IntOf(_)
IntOf(ds) ==
    IF ds = <<>> THEN 0
    ELSE 10 * IntOf(SubSeq(ds, 1, Len(ds) - 1)) + DigitVal(ds[Len(ds)])

\* str() of a natural number
RECURSIVE DecStr(_)
DecStr(n) ==
    IF n < 10 THEN <<DigitChars[n + 1]>>
    ELSE DecStr(n \div 10) \o <<DigitChars[(n % 10) + 1]>>

\* format(n, "02d")
Fmt02d(n) == IF n < 10 THEN <<"0">> \o DecStr(n) ELSE DecStr(n)

(***************************************************************************)
(* extract_episode_number: the seven patterns, each a re.search.  A match  *)
(* is [found, g1, g2]; re.search returns the match at the leftmost start.  *)
(***************************************************************************)
NoMatch == [found |-> FALSE, g1 |-> <<>>, g2 |-> <<>>]

Match(a, b) == [found |-> TRUE, g1 |-> a, g2 |-> b]

\* the least of the starts at which a pattern matches, or 0
LeftMost(starts) ==
    IF starts = {} THEN 0
    ELSE CHOOSE i \in starts : \A j \in starts : i <= j

\* the starts re.search tries: every position of the name
Starts(s) == 1..Len(s)

\* S(\d+)E(\d+), re.IGNORECASE, at start i
SEAt(s, i) ==
    LET j == DigitsEnd(s, i + 1)
        k == DigitsEnd(s, j + 2)
    IN  /\ Lower(At(s, i)) = "s"
        /\ j >= i + 1
        /\ Lower(At(s, j + 1)) = "e"
        /\ k >= j + 2

s_e_match(s) ==
    LET i == LeftMost({p \in Starts(s) : SEAt(s, p)})
        j == DigitsEnd(s, i + 1)
        k == DigitsEnd(s, j + 2)
    IN  IF i = 0 THEN NoMatch
        ELSE Match(SubSeq(s, i + 1, j), SubSeq(s, j + 2, k))

\* (\d+)x(\d+), re.IGNORECASE, at start i
SxEAt(s, i) ==
    LET j == DigitsEnd(s, i)
        k == DigitsEnd(s, j + 2)
    IN  /\ j >= i
        /\ Lower(At(s, j + 1)) = "x"
        /\ k >= j + 2

s_x_e_match(s) ==
    LET i == LeftMost({p \in Starts(s) : SxEAt(s, p)})
        j == DigitsEnd(s, i)
        k == DigitsEnd(s, j + 2)
    IN  IF i = 0 THEN NoMatch
        ELSE Match(SubSeq(s, i, j), SubSeq(s, j + 2, k))

\* EP(\d+), re.IGNORECASE, at start i
EPAt(s, i) == LitAt(s, i, <<"e", "p">>) /\ DigitsEnd(s, i + 2) >= i + 2

ep_match(s) ==
    LET i == LeftMost({p \in Starts(s) : EPAt(s, p)})
    IN  IF i = 0 THEN NoMatch
        ELSE Match(SubSeq(s, i + 2, DigitsEnd(s, i + 2)), <<>>)

\* ^(\d+)-  (no flags: only at the start of the name)
dash_match(s) ==
    LET j == DigitsEnd(s, 1)
    IN  IF j >= 1 /\ At(s, j + 1) = "-" THEN Match(SubSeq(s, 1, j), <<>>)
        ELSE NoMatch

\* Episode\s*(\d+), re.IGNORECASE, at start i
EpisodeLit == <<"e", "p", "i", "s", "o", "d", "e">>

EpisodeAt(s, i) ==
    LET w == SpacesEnd(s, i + Len(EpisodeLit))
    IN  LitAt(s, i, EpisodeLit) /\ DigitsEnd(s, w + 1) >= w + 1

episode_match(s) ==
    LET i == LeftMost({p \in Starts(s) : EpisodeAt(s, p)})
        w == SpacesEnd(s, i + Len(EpisodeLit))
    IN  IF i = 0 THEN NoMatch
        ELSE Match(SubSeq(s, w + 1, DigitsEnd(s, w + 1)), <<>>)

\* Ep\s*(\d+), re.IGNORECASE, at start i
EpShortAt(s, i) ==
    LET w == SpacesEnd(s, i + 2)
    IN  LitAt(s, i, <<"e", "p">>) /\ DigitsEnd(s, w + 1) >= w + 1

ep_short_match(s) ==
    LET i == LeftMost({p \in Starts(s) : EpShortAt(s, p)})
        w == SpacesEnd(s, i + 2)
    IN  IF i = 0 THEN NoMatch
        ELSE Match(SubSeq(s, w + 1, DigitsEnd(s, w + 1)), <<>>)

\* (\d+) at start i
NumberAt(s, i) == IsDigit(At(s, i))

number_match(s) ==
    LET i == LeftMost({p \in Starts(s) : NumberAt(s, p)})
    IN  IF i = 0 THEN NoMatch
        ELSE Match(SubSeq(s, i, DigitsEnd(s, i)), <<>>)

\* Optional[str]: None, or a tag
None == [some |-> FALSE, tag |-> <<>>]

Some(t) == [some |-> TRUE, tag |-> t]

\* f"S{season_num:02d}E{episode_num:02d}"
SeasonEpisodeTag(m) ==
    Some(<<"S">> \o Fmt02d(IntOf(m.g1)) \o <<"E">> \o Fmt02d(IntOf(m.g2)))

\* f"S01E{episode_num:02d}"
SeasonOneTag(m) == Some(<<"S", "0", "1", "E">> \o Fmt02d(IntOf(m.g1)))

\* f"E{episode_num:02d}"
EpisodeTag(m) == Some(<<"E">> \o Fmt02d(IntOf(m.g1)))

\* the ladder with its first two rules in the other order
extract_episode_number_x_first(filename) ==
    IF s_x_e_match(filename).found
    THEN SeasonEpisodeTag(s_x_e_match(filename))
    ELSE IF s_e_match(filename).found
         THEN SeasonEpisodeTag(s_e_match(filename))
    ELSE IF ep_match(filename).found THEN SeasonOneTag(ep_match(filename))
    ELSE IF dash_match(filename).found THEN SeasonOneTag(dash_match(filename))
    ELSE IF episode_match(filename).found
         THEN EpisodeTag(episode_match(filename))
    ELSE IF ep_short_match(filename).found
         THEN EpisodeTag(ep_short_match(filename))
    ELSE IF number_match(filename).found
         THEN EpisodeTag(number_match(filename))
    ELSE None

\* the ladder without its last rule, the bare number
extract_episode_number_no_fallback(filename) ==
    IF s_e_match(filename).found THEN SeasonEpisodeTag(s_e_match(filename))
    ELSE IF s_x_e_match(filename).found
         THEN SeasonEpisodeTag(s_x_e_match(filename))
    ELSE IF ep_match(filename).found THEN SeasonOneTag(ep_match(filename))
    ELSE IF dash_match(filename).found THEN SeasonOneTag(dash_match(filename))
    ELSE IF episode_match(filename).found
         THEN EpisodeTag(episode_match(filename))
    ELSE IF ep_short_match(filename).found
         THEN EpisodeTag(ep_short_match(filename))
    ELSE None

extract_episode_number(filename) ==
    IF s_e_match(filename).found THEN SeasonEpisodeTag(s_e_match(filename))
    ELSE IF s_x_e_match(filename).found
         THEN SeasonEpisodeTag(s_x_e_match(filename))
    ELSE IF ep_match(filename).found THEN SeasonOneTag(ep_match(filename))
    ELSE IF dash_match(filename).found THEN SeasonOneTag(dash_match(filename))
    ELSE IF episode_match(filename).found
         THEN EpisodeTag(episode_match(filename))
    ELSE IF ep_short_match(filename).found
         THEN EpisodeTag(ep_short_match(filename))
    ELSE IF number_match(filename).found
         THEN EpisodeTag(number_match(filename))
    ELSE None

\* the truth value Python gives an Optional[str]
Truthy(r) == r.some /\ r.tag # <<>>


(***************************************************************************)
(* pathlib: suffix, stem, with_suffix and glob("*.mp4") on the characters  *)
(* of a file name.                                                         *)
(***************************************************************************)
\* name.rfind("."), 1-based; 0 when the name has no dot
LastDot(name) ==
    IF \E i \in 1..Len(name) : name[i] = "."
    THEN CHOOSE i \in 1..Len(name) :
             name[i] = "." /\ \A j \in (i + 1)..Len(name) : name[j] # "."
    ELSE 0

\* Path.suffix: from the last dot, unless the dot starts or ends the name
HasSuffix(name) == 1 < LastDot(name) /\ LastDot(name) < Len(name)

\* Path.stem
Stem(name) ==
    IF HasSuffix(name) THEN SubSeq(name, 1, LastDot(name) - 1) ELSE name

\* Path.with_suffix
with_suffix(name, suffix) == Stem(name) \o suffix

Mp4Ext == <<".", "m", "p", "4">>

TempExt == <<".", "t", "e", "m", "p", ".", "m", "p", "4">>

ThmExt == <<".", "T", "H", "M">>

EndsWith(name, ext) ==
    /\ Len(name) >= Len(ext)
    /\ SubSeq(name, Len(name) - Len(ext) + 1, Len(name)) = ext

\* temp_path = video_path.with_suffix('.temp.mp4')
TempPath(video_path) == with_suffix(video_path, TempExt)

\* thm_path = video_path.with_suffix('.THM')
ThmPath(video_path) == with_suffix(video_path, ThmExt)

(***************************************************************************)
(* The fixed file names.                                                   *)
(***************************************************************************)
CoverStems ==
    << <<"c", "o", "v", "e", "r">>,
       <<"C", "o", "v", "e", "r">>,
       <<"C", "O", "V", "E", "R">> >>

CoverExts ==
    << <<".", "j", "p", "g">>,
       <<".", "j", "p", "e", "g">>,
       <<".", "p", "n", "g">>,
       <<".", "b", "m", "p">>,
       <<".", "g", "i", "f">> >>

\* the 15 candidates, in the order of the list
cover_patterns ==
    [k \in 1..(Len(CoverStems) * Len(CoverExts)) |->
        CoverStems[((k - 1) \div Len(CoverExts)) + 1]
            \o CoverExts[((k - 1) % Len(CoverExts)) + 1]]

ThumbnailName ==
    <<"t", "h", "u", "m", "b", "n", "a", "i", "l", ".", "j", "p", "g">>

\* cleanup_for_psp's list: thumbnail.jpg, then the 15 candidates
files_to_remove == <<ThumbnailName>> \o cover_patterns

Range(q) == {q[k] : k \in 1..Len(q)}

\* the names a directory of the model may hold videos under; the second is
\* the temporary path of the first
VideoUniverse ==
    << <<"1">> \o Mp4Ext,
       <<"1">> \o TempExt,
       <<"b">> \o Mp4Ext,
       <<"s", "1", "e", "2">> \o Mp4Ext >>

ShowName == <<"X">>

MoviesAlbum == <<"M", "o", "v", "i", "e", "s">>

(***************************************************************************)
(* Directory contents.                                                     *)
(***************************************************************************)
NoMeta == <<>>

\* a file as it was before the run
Original(name) == [kind |-> "original", of |-> name, meta |-> NoMeta]

\* what an interrupted or failed transcoder run leaves at its output path
Partial(name) == [kind |-> "partial", of |-> name, meta |-> NoMeta]

\* ffmpeg -i video -c copy -metadata k=v ... : the payload of the input with
\* the given tags set
Remux(content, metadata) ==
    [kind |-> "tagged",
     of   |-> content.of,
     meta |-> [k \in DOMAIN metadata \cup DOMAIN content.meta |->
                  IF k \in DOMAIN metadata THEN metadata[k]
                  ELSE content.meta[k]]]

\* ffmpeg -i image -vf scale=160:120 -q:v 2
Scale(content) == [kind |-> "thumbnail", of |-> content.of, meta |-> NoMeta]

Exists(dir, name) == name \in DOMAIN dir

Put(dir, name, content) ==
    [n \in DOMAIN dir \cup {name} |-> IF n = name THEN content ELSE dir[n]]

Unlink(dir, names) == [n \in DOMAIN dir \ names |-> dir[n]]

\* directory.glob("*.mp4")
Glob(dir) == {n \in DOMAIN dir : EndsWith(n, Mp4Ext)}

\* the lists of the elements of S in some order: a directory listing
Listings(S) ==
    {q \in [1..Cardinality(S) -> S] : \A a, b \in DOMAIN q : q[a] = q[b] => a = b}

\* find_cover_image: the first candidate that exists, or no path
NoPath == <<>>

find_cover_image(dir) ==
    IF \E k \in DOMAIN cover_patterns : Exists(dir, cover_patterns[k])
    THEN cover_patterns[
             CHOOSE k \in DOMAIN cover_patterns :
                 /\ Exists(dir, cover_patterns[k])
                 /\ \A j \in 1..(k - 1) : ~Exists(dir, cover_patterns[j])]
    ELSE NoPath

(***************************************************************************)
(* The metadata records.                                                   *)
(***************************************************************************)
\* process_movies
MovieMetadata(video_file) ==
    [title |-> Stem(video_file), album |-> MoviesAlbum]

\* process_tv_show: episode_id only when the extractor's result is truthy
TVMetadata(episode_title, show, tag) ==
    IF Truthy(tag)
    THEN [title |-> episode_title, album |-> show, show |-> show,
          episode_id |-> tag.tag]
    ELSE [title |-> episode_title, album |-> show, show |-> show]


(***************************************************************************)
(* The state of one run of the program.                                    *)
(***************************************************************************)
VARIABLES
    pc,             \* where the process is; how it ended once it has
    fs,             \* the directory: file name -> content
    fs0,            \* the directory as it was when the process started
    content_type,   \* "movie" or "tv_show" once asked
    show_name,
    thumbnail_path, \* process_*'s local: ThumbnailName or NoPath (None)
    mp4_files,      \* process_*'s local: the listing the loop walks
    i,              \* the loop's position in mp4_files
    metadata,       \* the record built for mp4_files[i]
    passed,         \* videos add_metadata_to_video was called for
    tagged_ok,      \* videos add_metadata_to_video returned True for
    tag_failed,     \* videos it returned False for, or raised for
    thm_called,     \* videos create_psp_thumbnail_file was called for
    thm_failed,     \* videos create_psp_thumbnail_file returned False for
    conv_failed,    \* convert_to_psp_thumbnail returned False
    cleanup_ran,    \* cleanup_for_psp has run
    del_failed,     \* names whose unlink raised in cleanup_for_psp
    printed,        \* the kinds of message written to the console
    exit_code,      \* the process's exit status; -1 while it runs
    filename,       \* the extractor's input   (extractor runs only)
    episode_number  \* the extractor's result  (extractor runs only)

vars ==
    <<pc, fs, fs0, content_type, show_name, thumbnail_path, mp4_files, i,
      metadata, passed, tagged_ok, tag_failed, thm_called, thm_failed,
      conv_failed, cleanup_ran, del_failed, printed, exit_code, filename,
      episode_number>>

\* everything process_* and add_metadata_to_video keep besides fs and pc
loop_vars == <<mp4_files, i, metadata>>

history_vars ==
    <<passed, tagged_ok, tag_failed, thm_called, thm_failed, conv_failed,
      cleanup_ran, del_failed>>

extract_vars == <<filename, episode_number>>

Prefix(q, n) == {q[k] : k \in 1..n}

\* get_directory returns only a directory that holds at least one *.mp4
InitialDirectories ==
    {[n \in videos \cup covers \cup stale |-> Original(n)] :
        <<videos, covers, stale>> \in
            (SUBSET Prefix(VideoUniverse, MaxVideos) \ {{}})
                \X (SUBSET Prefix(cover_patterns, MaxCovers))
                \X {{}, {ThumbnailName}}}

Init ==
    /\ pc = "startup"
    /\ fs \in InitialDirectories
    /\ fs0 = fs
    /\ content_type = "none"
    /\ show_name = <<>>
    /\ thumbnail_path = NoPath
    /\ mp4_files = <<>>
    /\ i = 0
    /\ metadata = NoMeta
    /\ passed = {}
    /\ tagged_ok = {}
    /\ tag_failed = {}
    /\ thm_called = {}
    /\ thm_failed = {}
    /\ conv_failed = FALSE
    /\ cleanup_ran = FALSE
    /\ del_failed = {}
    /\ printed = {}
    /\ exit_code = -1
    /\ filename = <<>>
    /\ episode_number = None

(***************************************************************************)
(* __init__ and main: the transcoder check, before run()'s try block.      *)
(***************************************************************************)
CheckFfmpegOk ==
    /\ pc = "startup"
    /\ pc' = "input"
    /\ UNCHANGED <<fs, fs0, content_type, show_name, thumbnail_path,
                   loop_vars, history_vars, printed, exit_code, extract_vars>>

\* sys.exit(1) in __init__
CheckFfmpegMissing ==
    /\ pc = "startup"
    /\ pc' = "no_ffmpeg"
    /\ printed' = printed \cup {"ffmpeg_missing"}
    /\ exit_code' = 1
    /\ UNCHANGED <<fs, fs0, content_type, show_name, thumbnail_path,
                   loop_vars, history_vars, extract_vars>>

\* a KeyboardInterrupt outside run()'s try block is caught by nothing: the
\* interpreter prints the traceback and the process dies of SIGINT
StartupInterrupt ==
    /\ pc = "startup"
    /\ pc' = "killed"
    /\ printed' = printed \cup {"traceback"}
    /\ exit_code' = 130
    /\ UNCHANGED <<fs, fs0, content_type, show_name, thumbnail_path,
                   loop_vars, history_vars, extract_vars>>

(***************************************************************************)
(* run(): input collection.                                                *)
(***************************************************************************)
GetInputs ==
    /\ pc = "input"
    /\ \E ct \in {"movie", "tv_show"} :
        /\ content_type' = ct
        /\ show_name' = IF ct = "tv_show" THEN ShowName ELSE <<>>
    /\ printed' = printed \cup {"prompt"}
    /\ pc' = "cover"
    /\ UNCHANGED <<fs, fs0, thumbnail_path, loop_vars, history_vars,
                   exit_code, extract_vars>>

\* except Exception in run(): "Unexpected error", sys.exit(1)
Unexpected(also) ==
    /\ pc' = "error"
    /\ printed' = printed \cup also \cup {"unexpected"}
    /\ exit_code' = 1

\* input() raises EOFError when the console is closed
InputError ==
    /\ pc = "input"
    /\ Unexpected({"prompt"})
    /\ UNCHANGED <<fs, fs0, content_type, show_name, thumbnail_path,
                   loop_vars, history_vars, extract_vars>>


(***************************************************************************)
(* process_movies / process_tv_show: the cover image and the thumbnail.    *)
(***************************************************************************)
NoCoverFound ==
    /\ pc = "cover"
    /\ find_cover_image(fs) = NoPath
    /\ thumbnail_path' = NoPath
    /\ pc' = "glob"
    /\ UNCHANGED <<fs, fs0, content_type, show_name, loop_vars, history_vars,
                   printed, exit_code, extract_vars>>

\* convert_to_psp_thumbnail returns True: ffmpeg -y wrote thumbnail.jpg
ConvertOk ==
    /\ pc = "cover"
    /\ find_cover_image(fs) # NoPath
    /\ fs' = Put(fs, ThumbnailName, Scale(fs[find_cover_image(fs)]))
    /\ thumbnail_path' = ThumbnailName
    /\ pc' = "glob"
    /\ UNCHANGED <<fs0, content_type, show_name, loop_vars, history_vars,
                   printed, exit_code, extract_vars>>

\* convert_to_psp_thumbnail returns False (CalledProcessError); ffmpeg may
\* or may not have begun to write its output; thumbnail_path = None
ConvertFails ==
    /\ pc = "cover"
    /\ find_cover_image(fs) # NoPath
    /\ \E wrote \in BOOLEAN :
        fs' = IF wrote THEN Put(fs, ThumbnailName, Partial(ThumbnailName))
              ELSE fs
    /\ thumbnail_path' = NoPath
    /\ conv_failed' = TRUE
    /\ pc' = "glob"
    /\ UNCHANGED <<fs0, content_type, show_name, loop_vars, passed,
                   tagged_ok, tag_failed, thm_called, thm_failed,
                   cleanup_ran, del_failed, printed, exit_code, extract_vars>>

(***************************************************************************)
(* The loop over the listing.                                              *)
(***************************************************************************)
\* the metadata record the loop body builds for a video
MetadataFor(video_file, ctype, show) ==
    IF ctype = "movie" THEN MovieMetadata(video_file)
    ELSE TVMetadata(Stem(video_file), show,
                    extract_episode_number(Stem(video_file)))

\* the for statement: the j-th video, or cleanup_for_psp after the last
LoopTo(files, j) ==
    /\ mp4_files' = files
    /\ i' = j
    /\ IF j <= Len(files)
       THEN /\ pc' = "ffmpeg"
            /\ metadata' = MetadataFor(files[j], content_type, show_name)
       ELSE /\ pc' = "cleanup"
            /\ metadata' = metadata

\* mp4_files = list(directory.glob("*.mp4")): in the order the file system
\* lists them
ListVideos ==
    /\ pc = "glob"
    /\ \E listing \in Listings(Glob(fs)) : LoopTo(listing, 1)
    /\ UNCHANGED <<fs, fs0, content_type, show_name, thumbnail_path,
                   history_vars, printed, exit_code, extract_vars>>

video_file == mp4_files[i]

(***************************************************************************)
(* add_metadata_to_video, in its two steps: the transcoder writes the      *)
(* temporary path, shutil.move replaces the original.                      *)
(***************************************************************************)
\* subprocess.run(cmd, check=True) returns: the output is at temp_path
FfmpegOk ==
    /\ pc = "ffmpeg"
    /\ Exists(fs, video_file)
    /\ fs' = Put(fs, TempPath(video_file), Remux(fs[video_file], metadata))
    /\ passed' = passed \cup {video_file}
    /\ pc' = "move"
    /\ UNCHANGED <<fs0, content_type, show_name, thumbnail_path, loop_vars,
                   tagged_ok, tag_failed, thm_called, thm_failed,
                   conv_failed, cleanup_ran, del_failed, printed, exit_code,
                   extract_vars>>

\* FfmpegFails with the sidecar block outside the success branch
FfmpegFailsThenSidecar ==
    /\ pc = "ffmpeg"
    /\ \E wrote \in BOOLEAN :
        /\ wrote => Exists(fs, video_file)
        /\ fs' = Unlink(IF wrote
                        THEN Put(fs, TempPath(video_file),
                                 Partial(TempPath(video_file)))
                        ELSE fs,
                        {TempPath(video_file)})
    /\ passed' = passed \cup {video_file}
    /\ tag_failed' = tag_failed \cup {video_file}
    /\ pc' = "thm"
    /\ UNCHANGED <<fs0, content_type, show_name, thumbnail_path, loop_vars,
                   tagged_ok, thm_called, thm_failed, conv_failed,
                   cleanup_ran, del_failed, printed, exit_code, extract_vars>>

\* CalledProcessError (always, when the input is missing): the handler
\* unlinks temp_path if it exists and the call returns False; the loop
\* goes on to the next video
FfmpegFails ==
    /\ pc = "ffmpeg"
    /\ \E wrote \in BOOLEAN :
        /\ wrote => Exists(fs, video_file)
        /\ fs' = Unlink(IF wrote
                        THEN Put(fs, TempPath(video_file),
                                 Partial(TempPath(video_file)))
                        ELSE fs,
                        {TempPath(video_file)})
    /\ passed' = passed \cup {video_file}
    /\ tag_failed' = tag_failed \cup {video_file}
    /\ LoopTo(mp4_files, i + 1)
    /\ UNCHANGED <<fs0, content_type, show_name, thumbnail_path, tagged_ok,
                   thm_called, thm_failed, conv_failed, cleanup_ran,
                   del_failed, printed, exit_code, extract_vars>>

\* shutil.move(temp_path, video_path): a rename within the directory
MoveOk ==
    /\ pc = "move"
    /\ fs' = Unlink(Put(fs, video_file, fs[TempPath(video_file)]),
                    {TempPath(video_file)})
    /\ tagged_ok' = tagged_ok \cup {video_file}
    /\ pc' = "thm"
    /\ UNCHANGED <<fs0, content_type, show_name, thumbnail_path, loop_vars,
                   passed, tag_failed, thm_called, thm_failed, conv_failed,
                   cleanup_ran, del_failed, printed, exit_code, extract_vars>>

\* shutil.move raises OSError: the handler of add_metadata_to_video names
\* CalledProcessError only, so the error leaves process_* and reaches
\* run()'s except Exception
MoveRaises ==
    /\ pc = "move"
    /\ tag_failed' = tag_failed \cup {video_file}
    /\ Unexpected({})
    /\ UNCHANGED <<fs, fs0, content_type, show_name, thumbnail_path,
                   loop_vars, passed, tagged_ok, thm_called, thm_failed,
                   conv_failed, cleanup_ran, del_failed, extract_vars>>

(***************************************************************************)
(* The sidecar, inside the branch taken when add_metadata_to_video         *)
(* returned True.                                                          *)
(***************************************************************************)
\* if thumbnail_path and thumbnail_path.exists()
HaveThumbnail == thumbnail_path # NoPath /\ Exists(fs, thumbnail_path)

SkipSidecar ==
    /\ pc = "thm"
    /\ ~HaveThumbnail
    /\ LoopTo(mp4_files, i + 1)
    /\ UNCHANGED <<fs, fs0, content_type, show_name, thumbnail_path,
                   history_vars, printed, exit_code, extract_vars>>

\* create_psp_thumbnail_file returns True: shutil.copy2 to <stem>.THM
SidecarOk ==
    /\ pc = "thm"
    /\ HaveThumbnail
    /\ fs' = Put(fs, ThmPath(video_file), fs[thumbnail_path])
    /\ thm_called' = thm_called \cup {video_file}
    /\ LoopTo(mp4_files, i + 1)
    /\ UNCHANGED <<fs0, content_type, show_name, thumbnail_path, passed,
                   tagged_ok, tag_failed, thm_failed, conv_failed,
                   cleanup_ran, del_failed, printed, exit_code, extract_vars>>

\* create_psp_thumbnail_file returns False: the copy raised
SidecarFails ==
    /\ pc = "thm"
    /\ HaveThumbnail
    /\ thm_called' = thm_called \cup {video_file}
    /\ thm_failed' = thm_failed \cup {video_file}
    /\ LoopTo(mp4_files, i + 1)
    /\ UNCHANGED <<fs, fs0, content_type, show_name, thumbnail_path, passed,
                   tagged_ok, tag_failed, conv_failed, cleanup_ran,
                   del_failed, printed, exit_code, extract_vars>>

(***************************************************************************)
(* cleanup_for_psp, the completion summary, and an interrupt.              *)
(***************************************************************************)
\* cleanup_for_psp with the thumbnail left out of its list
cleanup_covers_only ==
    /\ pc = "cleanup"
    /\ \E failing \in SUBSET (Range(cover_patterns) \cap DOMAIN fs) :
        /\ fs' = Unlink(fs, (Range(cover_patterns) \cap DOMAIN fs) \ failing)
        /\ del_failed' = failing
    /\ cleanup_ran' = TRUE
    /\ pc' = "summary"
    /\ UNCHANGED <<fs0, content_type, show_name, thumbnail_path, loop_vars,
                   passed, tagged_ok, tag_failed, thm_called, thm_failed,
                   conv_failed, printed, exit_code, extract_vars>>

\* each listed name that exists is unlinked; an unlink that raises is
\* reported and the loop goes on
cleanup_for_psp ==
    /\ pc = "cleanup"
    /\ \E failing \in SUBSET (Range(files_to_remove) \cap DOMAIN fs) :
        /\ fs' = Unlink(fs, (Range(files_to_remove) \cap DOMAIN fs) \ failing)
        /\ del_failed' = failing
    /\ cleanup_ran' = TRUE
    /\ pc' = "summary"
    /\ UNCHANGED <<fs0, content_type, show_name, thumbnail_path, loop_vars,
                   passed, tagged_ok, tag_failed, thm_called, thm_failed,
                   conv_failed, printed, exit_code, extract_vars>>

\* "=== Processing Complete ===", then run() and main() return
PrintSummary ==
    /\ pc = "summary"
    /\ printed' = printed \cup {"summary"}
    /\ exit_code' = 0
    /\ pc' = "done"
    /\ UNCHANGED <<fs, fs0, content_type, show_name, thumbnail_path,
                   loop_vars, history_vars, extract_vars>>

InTry == pc \in {"input", "cover", "glob", "ffmpeg", "move", "thm",
                 "cleanup", "summary"}

\* what a transcoder killed with the process leaves behind
InterruptedOutput ==
    IF pc = "ffmpeg" /\ Exists(fs, video_file)
    THEN {fs, Put(fs, TempPath(video_file), Partial(TempPath(video_file)))}
    ELSE IF pc = "cover" /\ find_cover_image(fs) # NoPath
    THEN {fs, Put(fs, ThumbnailName, Partial(ThumbnailName))}
    ELSE {fs}

\* Interrupt with a handler that ends in sys.exit(1)
InterruptExitsNonZero ==
    /\ InTry
    /\ fs' \in InterruptedOutput
    /\ printed' = printed \cup {"cancelled"}
    /\ exit_code' = 1
    /\ pc' = "cancelled"
    /\ UNCHANGED <<fs0, content_type, show_name, thumbnail_path, loop_vars,
                   history_vars, extract_vars>>

\* except KeyboardInterrupt in run(): "Operation cancelled by user.", and
\* run() returns
Interrupt ==
    /\ InTry
    /\ fs' \in InterruptedOutput
    /\ printed' = printed \cup {"cancelled"}
    /\ exit_code' = 0
    /\ pc' = "cancelled"
    /\ UNCHANGED <<fs0, content_type, show_name, thumbnail_path, loop_vars,
                   history_vars, extract_vars>>

Next ==
    \/ CheckFfmpegOk
    \/ CheckFfmpegMissing
    \/ StartupInterrupt
    \/ GetInputs
    \/ InputError
    \/ NoCoverFound
    \/ ConvertOk
    \/ ConvertFails
    \/ ListVideos
    \/ FfmpegOk
    \/ FfmpegFails
    \/ MoveOk
    \/ MoveRaises
    \/ SkipSidecar
    \/ SidecarOk
    \/ SidecarFails
    \/ cleanup_for_psp
    \/ PrintSummary
    \/ Interrupt

Spec == Init /\ [][Next]_vars


(***************************************************************************)
(* The extractor on its own: extract_episode_number applied to a file name *)
(* stem, and the record process_tv_show builds from the result.  The stems *)
(* are made of at most MaxTokens pieces, chosen so that every rule of the  *)
(* ladder, every pair of rules and the near misses occur.                  *)
(***************************************************************************)
FilenameTokens ==
    { <<"S">>, <<"E">>, <<"x">>, <<"-">>, <<" ">>, <<"a">>, <<"0">>, <<"7">>,
      <<"S", "1">>, <<"s", "0", "1">>, <<"E", "2">>, <<"e", "1", "0">>,
      <<"3", "x", "4">>, <<"E", "P", "3">>, <<"5", "-">>,
      <<"E", "p", "i", "s", "o", "d", "e", " ", "4">>,
      <<"e", "p", " ", "6">> }

RECURSIVE Flatten(_)
Flatten(q) == IF q = <<>> THEN <<>> ELSE Head(q) \o Flatten(Tail(q))

Filenames ==
    {Flatten(q) : q \in UNION {[1..n -> FilenameTokens] : n \in 0..MaxTokens}}

InitExtract ==
    /\ pc = "extract"
    /\ filename \in Filenames
    /\ episode_number = None
    /\ fs = <<>>
    /\ fs0 = <<>>
    /\ content_type = "tv_show"
    /\ show_name = ShowName
    /\ thumbnail_path = NoPath
    /\ mp4_files = <<>>
    /\ i = 0
    /\ metadata = NoMeta
    /\ passed = {}
    /\ tagged_ok = {}
    /\ tag_failed = {}
    /\ thm_called = {}
    /\ thm_failed = {}
    /\ conv_failed = FALSE
    /\ cleanup_ran = FALSE
    /\ del_failed = {}
    /\ printed = {}
    /\ exit_code = -1

\* episode_number = self.extract_episode_number(video_file.stem)
ExtractEpisode ==
    /\ pc = "extract"
    /\ episode_number' = extract_episode_number(filename)
    /\ pc' = "metadata"
    /\ UNCHANGED <<fs, fs0, content_type, show_name, thumbnail_path,
                   loop_vars, history_vars, printed, exit_code, filename>>

\* metadata = {...}; if episode_number: metadata['episode_id'] = ...
BuildTVMetadata ==
    /\ pc = "metadata"
    /\ metadata' = TVMetadata(filename, show_name, episode_number)
    /\ pc' = "built"
    /\ UNCHANGED <<fs, fs0, content_type, show_name, thumbnail_path,
                   mp4_files, i, history_vars, printed, exit_code,
                   extract_vars>>

NextExtract == ExtractEpisode \/ BuildTVMetadata

SpecExtract == InitExtract /\ [][NextExtract]_vars


(***************************************************************************)
(* Properties of a run (specification Spec).                               *)
(***************************************************************************)
\* the videos of the directory when the run started
Videos0 == Glob(fs0)

\* process_movies / process_tv_show has returned
FullRun == pc \in {"summary", "done"}

\* the process has ended, and not by an interrupt
EndedUninterrupted == pc \in {"done", "error", "no_ffmpeg", "killed"}

Ended == EndedUninterrupted \/ pc = "cancelled"

\* the videos whose turn in the loop is over
Completed == Prefix(mp4_files, i - 1)

\* C1: in every reachable state, the file at each video's own path is there
\* and holds either exactly its original content or its complete tagged
\* version; it is never missing, partial or another file's content.
C1_OriginalOrTagged ==
    \A v \in Videos0 :
        /\ Exists(fs, v)
        /\ fs[v] \in {fs0[v],
                      Remux(fs0[v], MetadataFor(v, content_type, show_name))}

\* C2: when the tagging step of some video has failed (the transcoder call
\* or the replacement of the original) and the run has ended other than by
\* an interrupt, the run completed, every other video was passed to the
\* tagging step and came out of it, and cleanup ran.
C2_FailureIsolated ==
    (tag_failed # {} /\ EndedUninterrupted) =>
        /\ pc = "done"
        /\ cleanup_ran
        /\ \A v \in tag_failed : \A w \in Videos0 \ {v} :
               w \in passed /\ w \in tagged_ok \cup tag_failed

\* C3: after a full run every file that matched *.mp4 when the run started
\* still exists at its path.
C3_AllVideosRemain == FullRun => \A v \in Videos0 : Exists(fs, v)

\* C6: the temporary file of a video whose tagging step ended in failure
\* does not exist afterwards, and after a full run no temporary path of a
\* listed video exists.
C6_NoTempAfterFailure ==
    /\ \A v \in tag_failed : ~Exists(fs, TempPath(v))
    /\ FullRun => \A v \in Range(mp4_files) : ~Exists(fs, TempPath(v))

\* C7: when the cover image was found and its conversion failed, no sidecar
\* is made for any video, and a run that ends other than by an interrupt has
\* completed: every video was passed to the tagging step and cleanup ran.
C7_ConversionFailureNotFatal ==
    conv_failed =>
        /\ thm_called = {}
        /\ \A v \in Videos0 : ~Exists(fs, Stem(v) \o ThmExt)
        /\ EndedUninterrupted =>
               /\ pc = "done"
               /\ cleanup_ran
               /\ Videos0 \subseteq passed


\* the 16 names of the claim: thumbnail.jpg and cover/Cover/COVER with
\* .jpg, .jpeg, .png, .bmp, .gif
CleanupNames ==
    {ThumbnailName}
        \cup {st \o ex : st \in Range(CoverStems), ex \in Range(CoverExts)}

\* C4 as stated: after a full run the directory holds neither thumbnail.jpg
\* nor any cover candidate, whatever the outcome of each delete.
C4_NoneRemain == FullRun => \A n \in CleanupNames : ~Exists(fs, n)

\* C4 as amended: after a full run, the only names among thumbnail.jpg and
\* the 15 cover candidates that the directory still holds are those whose
\* delete failed; when no delete failed it holds none of them.
C4_OnlyFailedDeletesRemain ==
    FullRun =>
        /\ cleanup_ran
        /\ \A n \in CleanupNames : Exists(fs, n) => n \in del_failed
        /\ del_failed \subseteq CleanupNames \cap DOMAIN fs

\* a full run in which a cover that was there at the start has been removed
\* and the delete of the generated thumbnail failed
C4_Witness ==
    /\ pc = "done"
    /\ del_failed = {ThumbnailName}
    /\ thumbnail_path = ThumbnailName
    /\ \E n \in CleanupNames : Exists(fs0, n) /\ ~Exists(fs, n)

\* the thumbnail a successful conversion writes
GeneratedThumbnail == Scale(fs0[find_cover_image(fs0)])

\* <video stem>.THM holds a copy of the thumbnail
HasSidecar(v) ==
    /\ Exists(fs, Stem(v) \o ThmExt)
    /\ fs[Stem(v) \o ThmExt] = GeneratedThumbnail

\* C5 as stated: in a run where a thumbnail was generated, every video whose
\* turn is over has its sidecar (unless the copy itself failed), whether or
\* not its tagging step succeeded.
C5_SidecarRegardless ==
    thumbnail_path # NoPath =>
        \A v \in Completed : v \notin thm_failed => HasSidecar(v)

\* C5 as amended: in a run where a thumbnail was generated, every video whose
\* tagging step succeeded has its sidecar once its turn is over (unless the
\* copy itself failed), and no sidecar is made for a video whose tagging
\* step failed.
C5_SidecarAfterSuccessfulTag ==
    thumbnail_path # NoPath =>
        /\ \A v \in Completed \cap tagged_ok :
               v \notin thm_failed => HasSidecar(v)
        /\ \A v \in tag_failed :
               v \notin thm_called /\ ~Exists(fs, Stem(v) \o ThmExt)

\* a completed run with a generated thumbnail in which one video was tagged
\* and has its sidecar and another failed to be tagged and has none
C5_Witness ==
    /\ pc = "done"
    /\ thumbnail_path # NoPath
    /\ \E v \in tagged_ok : HasSidecar(v)
    /\ \E w \in tag_failed : ~Exists(fs, Stem(w) \o ThmExt)

\* the process ended on an error nothing recovers from: the error run()
\* reports as unexpected, or an interrupt before run()'s try block
UnhandledError == pc \in {"error", "killed"}

\* C8 as stated: the exit status is non-zero exactly when the transcoder was
\* missing at startup (no prompt issued, no file touched) or an unhandled
\* error occurred; every other run that ends, interrupted ones included,
\* exits zero with the completion summary printed.
C8_ZeroOnlyAfterSummary ==
    Ended =>
        /\ exit_code # 0 <=> (pc = "no_ffmpeg" \/ UnhandledError)
        /\ pc = "no_ffmpeg" => ("prompt" \notin printed /\ fs = fs0)
        /\ exit_code = 0 => "summary" \in printed

\* C8 as amended: the exit status is non-zero exactly when the transcoder
\* was missing at startup (no prompt issued, no file touched) or an
\* unhandled error occurred; a run that completes exits zero with the
\* completion summary printed; a run ended by an interrupt that run()
\* catches exits zero with the cancellation message and without the
\* completion summary.
C8_ExitStatus ==
    /\ ~Ended => (exit_code = -1 /\ "summary" \notin printed)
    /\ Ended =>
        /\ exit_code # 0 <=> (pc = "no_ffmpeg" \/ UnhandledError)
        /\ pc = "no_ffmpeg" => ("prompt" \notin printed /\ fs = fs0)
        /\ pc = "done" => (exit_code = 0 /\ "summary" \in printed)
        /\ pc = "cancelled" =>
               /\ exit_code = 0
               /\ "cancelled" \in printed
               /\ "summary" \notin printed

\* a run interrupted after it tagged a video
C8_Witness == pc = "cancelled" /\ tagged_ok # {} /\ exit_code = 0


(***************************************************************************)
(* Properties of the extractor (specification SpecExtract), stated on the  *)
(* characters of the file name and of the tag, apart from the operators    *)
(* that model the regular expressions and the formatting.                  *)
(***************************************************************************)
Decimal == {"0", "1", "2", "3", "4", "5", "6", "7", "8", "9"}

AllDecimal(s, from, to) == \A k \in from..to : s[k] \in Decimal

\* s[a] is S or s, s[a+1..b] are digits, s[b+1] is E or e, and s[b+2..c] is
\* the whole run of digits that follows
SEOccurrence(s, a, b, c) ==
    /\ s[a] \in {"S", "s"}
    /\ a < b
    /\ AllDecimal(s, a + 1, b)
    /\ b + 2 <= c
    /\ s[b + 1] \in {"E", "e"}
    /\ AllDecimal(s, b + 2, c)
    /\ (c = Len(s) \/ s[c + 1] \notin Decimal)

RECURSIVE StripZeros(_)
StripZeros(ds) ==
    IF Len(ds) > 1 /\ Head(ds) = "0" THEN StripZeros(Tail(ds)) ELSE ds

\* a number written in digits, zero-padded to at least 2 digits
PadTwo(ds) ==
    IF Len(StripZeros(ds)) < 2 THEN <<"0">> \o StripZeros(ds)
    ELSE StripZeros(ds)

Extracted == pc \in {"metadata", "built"}

\* C9: for a file name that holds an S<digits>E<digits> substring, in any
\* letter case and digit width, the extractor returns S, the season padded
\* to at least 2 digits, E, the episode padded to at least 2 digits, taken
\* from the first such substring, whatever other pattern the name matches.
C9_SeasonEpisodeFirst ==
    Extracted =>
        \A a, b, c \in 1..Len(filename) :
            ( /\ SEOccurrence(filename, a, b, c)
              /\ \A a2, b2, c2 \in 1..Len(filename) :
                     SEOccurrence(filename, a2, b2, c2) => a <= a2 )
            => episode_number =
                   Some(<<"S">> \o PadTwo(SubSeq(filename, a + 1, b))
                        \o <<"E">> \o PadTwo(SubSeq(filename, b + 2, c)))

\* "3x4S1E2", which the <d>x<d> rule and the bare-number rule match too,
\* has given S01E02
C9_Witness ==
    /\ pc = "built"
    /\ filename = <<"3", "x", "4", "S", "1", "E", "2">>
    /\ episode_number = Some(<<"S", "0", "1", "E", "0", "2">>)

HasDigit(s) == \E k \in 1..Len(s) : s[k] \in Decimal

\* S<season>E<episode> or E<episode>, each number of at least 2 digits
TagForm(t) ==
    \/ /\ Len(t) >= 3
       /\ t[1] = "E"
       /\ AllDecimal(t, 2, Len(t))
    \/ /\ Len(t) >= 6
       /\ t[1] = "S"
       /\ \E e \in 4..(Len(t) - 2) :
              /\ t[e] = "E"
              /\ AllDecimal(t, 2, e - 1)
              /\ AllDecimal(t, e + 1, Len(t))

\* C10: the extractor returns none exactly for the file names without a
\* digit, and a tag of the form S<season>E<episode> or E<episode> for every
\* other; the TV metadata record has an episode_id key, holding that tag,
\* exactly when the file name has a digit.
C10_NoneIffNoDigit ==
    /\ Extracted =>
        /\ episode_number = None <=> ~HasDigit(filename)
        /\ HasDigit(filename) =>
               episode_number.some /\ TagForm(episode_number.tag)
    /\ pc = "built" =>
        /\ "episode_id" \in DOMAIN metadata <=> HasDigit(filename)
        /\ HasDigit(filename) => metadata.episode_id = episode_number.tag
        /\ metadata.title = filename

\* "a7", which only the bare-number rule matches, has given E07 and the
\* record carries it
C10_Witness ==
    /\ pc = "built"
    /\ filename = <<"a", "7">>
    /\ episode_number = Some(<<"E", "0", "7">>)
    /\ metadata.episode_id = <<"E", "0", "7">>

====
